---- MODULE Spec2Model ----
(***************************************************************************)
(* Model of the booking form of src/app/book/page.tsx (BookingFormPage).   *)
(*                                                                         *)
(* The state is the component's useState cells.  Every event handler of    *)
(* the page is one action.  The useMemo values (total, canGoStep2,         *)
(* counselReady, readyToBook) are derived from the state on every render   *)
(* and are therefore operators, not variables.                             *)
(*                                                                         *)
(* Text values are sequences of one-character strings, so that             *)
(* String.prototype.trim and String.prototype.includes are computed and    *)
(* not assumed.  Enumerations, dates and select options are TLA+ strings   *)
(* with "" as the unset value, as in the source.                           *)
(*                                                                         *)
(* Collapse (lines 151-162) always renders its children and only changes   *)
(* CSS classes, so the handlers inside a closed Collapse stay mounted.     *)
(* The guards of the actions are therefore only the conditions the code    *)
(* itself states: `disabled` attributes and conditional rendering.         *)
(*                                                                         *)
(* lastOp is a history variable: the name of the handler that ran last.    *)
(***************************************************************************)
EXTENDS Integers, Sequences, FiniteSets

VARIABLES
    step,
    name, gender, email, emailOtp, phone, phoneOtp, nationality, dob, address,
    emailOtpSent, emailOtpVerified, phoneOtpSent, phoneOtpVerified,
    primaryService, legalDomain, caseDetails, consultMode,
    preferredDate, timeWindow, urgency, pastLegalAction,
    files,
    lastOp

applicantVars == <<name, gender, email, phone, nationality, dob, address>>
emailOtpVars == <<emailOtp, emailOtpSent, emailOtpVerified>>
phoneOtpVars == <<phoneOtp, phoneOtpSent, phoneOtpVerified>>
counselVars == <<legalDomain, caseDetails, consultMode, preferredDate,
                 timeWindow, urgency, pastLegalAction>>
vars == <<step, applicantVars, emailOtpVars, phoneOtpVars,
          primaryService, counselVars, files, lastOp>>

----------------------------------------------------------------------------
(* Fixed tables of the page *)

FEES_base == 1500

FEES_urgency ==
    [standard_24_48 |-> 0, within_6 |-> 500, within_2 |-> 1000]

UrgencyTiers == {"standard_24_48", "within_6", "within_2"}

PRIMARY_SERVICES ==
    {"get_counsel", "legal_drafting", "liaison_lawyers", "courtroom_tech",
     "advocate_vigilance", "document_review", "legal_assessment"}

LEGAL_DOMAINS ==
    {"Corporate, Commercial and Startups", "Family and Matrimonial",
     "Property and Real Estate", "Criminal Matters",
     "Civil & Consumer Disputes", "NRI Specific Services",
     "Employment & Labor", "Other"}

GENDERS == {"", "male", "female", "other"}

CONSULT_MODES == {"audio", "video", "in_person"}

TIME_WINDOWS ==
    {"10:00 AM - 12:00 PM", "12:00 PM - 02:00 PM", "02:00 PM - 04:00 PM",
     "04:00 PM - 06:00 PM", "06:00 PM - 08:00 PM"}

PAST_ACTIONS == {"yes", "no"}

----------------------------------------------------------------------------
(* Text helpers: String.prototype.trim / includes on character sequences *)

IsSpace(c) == c = " "

RECURSIVE trimStart(_)
trimStart(s) ==
    IF s # <<>> /\ IsSpace(Head(s)) THEN trimStart(Tail(s)) ELSE s

RECURSIVE trimEnd(_)
trimEnd(s) ==
    IF s # <<>> /\ IsSpace(s[Len(s)])
    THEN trimEnd(SubSeq(s, 1, Len(s) - 1))
    ELSE s

trimNone(s) == s

trim(s) == trimEnd(trimStart(s))

includes(s, c) == \E i \in DOMAIN s : s[i] = c

(* n copies of the character c *)
Rep(c, n) == [i \in 1..n |-> c]

----------------------------------------------------------------------------
(* Derived values (useMemo) *)

isCounsel == primaryService = "get_counsel"

totalFlat == FEES_base + FEES_urgency["within_6"]

total == FEES_base + FEES_urgency[urgency]

basicOk ==
    /\ Len(trim(name)) > 1
    /\ gender # ""
    /\ includes(email, "@")
    /\ Len(trim(phone)) >= 8
    /\ Len(trim(nationality)) > 1
    /\ Len(trim(address)) > 5

emailOk == emailOtpVerified \/ ~emailOtpSent

phoneOk == phoneOtpVerified \/ ~phoneOtpSent

canGoStep2IgnoringPhoneOtp == basicOk /\ emailOk

canGoStep2 == basicOk /\ emailOk /\ phoneOk

counselReadyNoMode ==
    IF ~isCounsel THEN FALSE
    ELSE /\ legalDomain # ""
         /\ Len(trim(caseDetails)) >= 10
         /\ preferredDate # ""
         /\ timeWindow # ""
         /\ urgency # ""
         /\ pastLegalAction # ""

counselReady ==
    IF ~isCounsel THEN FALSE
    ELSE /\ legalDomain # ""
         /\ Len(trim(caseDetails)) >= 10
         /\ consultMode # ""
         /\ preferredDate # ""
         /\ timeWindow # ""
         /\ urgency # ""
         /\ pastLegalAction # ""

readyToBookCounselOnly ==
    IF primaryService = "" THEN FALSE
    ELSE counselReady

readyToBook ==
    IF primaryService = "" THEN FALSE
    ELSE IF isCounsel THEN counselReady
    ELSE TRUE

----------------------------------------------------------------------------
(* Initial state: the useState initial values, lines 174-203 *)

Init ==
    /\ step = 1
    /\ name = <<>>
    /\ gender = ""
    /\ email = <<>>
    /\ emailOtp = <<>>
    /\ phone = <<>>
    /\ phoneOtp = <<>>
    /\ nationality = <<>>
    /\ dob = ""
    /\ address = <<>>
    /\ emailOtpSent = FALSE
    /\ emailOtpVerified = FALSE
    /\ phoneOtpSent = FALSE
    /\ phoneOtpVerified = FALSE
    /\ primaryService = ""
    /\ legalDomain = ""
    /\ caseDetails = <<>>
    /\ consultMode = ""
    /\ preferredDate = "2026-02-20"
    /\ timeWindow = "12:00 PM - 02:00 PM"
    /\ urgency = "standard_24_48"
    /\ pastLegalAction = ""
    /\ files = <<>>
    /\ lastOp = "init"

----------------------------------------------------------------------------
(* Values typed or picked by the user.  A text field receives the whole    *)
(* new value (e.target.value).  For every length test of the page there is *)
(* an empty value, a value that is long enough only when its surrounding   *)
(* blanks are counted, and a value that is long enough.                    *)

NameInputs == {<<>>, <<" ", "J">>, <<"J", "o">>}

EmailInputs == {<<>>, <<"a", "b">>, <<"a", "@", "b">>}

PhoneInputs == {<<>>, Rep("9", 7) \o <<" ">>, Rep("9", 8)}

NationalityInputs == {<<>>, <<"I", " ">>, <<"I", "N">>}

AddressInputs == {<<>>, <<" ">> \o Rep("x", 5), Rep("x", 6)}

DobInputs == {"", "1990-01-01"}

OtpInputs == {<<>>, Rep("1", 3) \o <<" ">>, Rep("1", 4)}

CaseDetailsInputs == {<<>>, Rep("x", 9) \o <<" ">>, Rep("x", 10)}

PreferredDateInputs == {"", "2026-02-20", "2026-03-01"}

----------------------------------------------------------------------------
(* Step 1 handlers *)

SetNameRelocks(v) ==
    /\ name' = v
    /\ step' = IF Len(trim(v)) > 1 THEN step ELSE 1
    /\ lastOp' = "SetName"
    /\ UNCHANGED <<gender, email, phone, nationality, dob, address,
                   emailOtpVars, phoneOtpVars, primaryService, counselVars, files>>

(* Name input onChange, line 298 *)
SetName(v) ==
    /\ name' = v
    /\ lastOp' = "SetName"
    /\ UNCHANGED <<step, gender, email, phone, nationality, dob, address,
                   emailOtpVars, phoneOtpVars, primaryService, counselVars, files>>

(* Gender select onChange, line 304 *)
SetGender(v) ==
    /\ gender' = v
    /\ lastOp' = "SetGender"
    /\ UNCHANGED <<step, name, email, phone, nationality, dob, address,
                   emailOtpVars, phoneOtpVars, primaryService, counselVars, files>>

SetEmailResetsVerification(v) ==
    /\ email' = v
    /\ emailOtpVerified' = FALSE
    /\ lastOp' = "SetEmail"
    /\ UNCHANGED <<step, name, gender, phone, nationality, dob, address,
                   emailOtp, emailOtpSent, phoneOtpVars, primaryService,
                   counselVars, files>>

(* Email input onChange, line 315 *)
SetEmail(v) ==
    /\ email' = v
    /\ lastOp' = "SetEmail"
    /\ UNCHANGED <<step, name, gender, phone, nationality, dob, address,
                   emailOtpVars, phoneOtpVars, primaryService, counselVars, files>>

(* Phone input onChange, line 354 *)
SetPhone(v) ==
    /\ phone' = v
    /\ lastOp' = "SetPhone"
    /\ UNCHANGED <<step, name, gender, email, nationality, dob, address,
                   emailOtpVars, phoneOtpVars, primaryService, counselVars, files>>

(* Nationality input onChange, line 393 *)
SetNationality(v) ==
    /\ nationality' = v
    /\ lastOp' = "SetNationality"
    /\ UNCHANGED <<step, name, gender, email, phone, dob, address,
                   emailOtpVars, phoneOtpVars, primaryService, counselVars, files>>

(* Date of birth input onChange, line 397 *)
SetDob(v) ==
    /\ dob' = v
    /\ lastOp' = "SetDob"
    /\ UNCHANGED <<step, name, gender, email, phone, nationality, address,
                   emailOtpVars, phoneOtpVars, primaryService, counselVars, files>>

(* Address input onChange, line 404 *)
SetAddress(v) ==
    /\ address' = v
    /\ lastOp' = "SetAddress"
    /\ UNCHANGED <<step, name, gender, email, phone, nationality, dob,
                   emailOtpVars, phoneOtpVars, primaryService, counselVars, files>>

(* Email OTP input onChange, lines 320-325: disabled until a code was sent *)
SetEmailOtp(v) ==
    /\ emailOtpSent
    /\ emailOtp' = v
    /\ lastOp' = "SetEmailOtp"
    /\ UNCHANGED <<step, applicantVars, emailOtpSent, emailOtpVerified,
                   phoneOtpVars, primaryService, counselVars, files>>

SendEmailOtpKeepVerified ==
    /\ emailOtpSent' = TRUE
    /\ emailOtp' = <<>>
    /\ lastOp' = "SendEmailOtp"
    /\ UNCHANGED <<step, applicantVars, emailOtpVerified, phoneOtpVars,
                   primaryService, counselVars, files>>

(* Send OTP / Resend button of the email channel, lines 326-336 *)
SendEmailOtp ==
    /\ emailOtpSent' = TRUE
    /\ emailOtpVerified' = FALSE
    /\ emailOtp' = <<>>
    /\ lastOp' = "SendEmailOtp"
    /\ UNCHANGED <<step, applicantVars, phoneOtpVars,
                   primaryService, counselVars, files>>

VerifyEmailOtpStub ==
    /\ emailOtpVerified' = TRUE
    /\ lastOp' = "VerifyEmailOtp"
    /\ UNCHANGED <<step, applicantVars, emailOtp, emailOtpSent, phoneOtpVars,
                   primaryService, counselVars, files>>

VerifyEmailOtpOnlySets ==
    /\ emailOtpSent
    /\ emailOtpVerified' = (emailOtpVerified \/ Len(trim(emailOtp)) >= 4)
    /\ lastOp' = "VerifyEmailOtp"
    /\ UNCHANGED <<step, applicantVars, emailOtp, emailOtpSent, phoneOtpVars,
                   primaryService, counselVars, files>>

(* Verify button of the email channel, lines 337-349: disabled until sent *)
VerifyEmailOtp ==
    /\ emailOtpSent
    /\ emailOtpVerified' = (Len(trim(emailOtp)) >= 4)
    /\ lastOp' = "VerifyEmailOtp"
    /\ UNCHANGED <<step, applicantVars, emailOtp, emailOtpSent, phoneOtpVars,
                   primaryService, counselVars, files>>

(* Phone OTP input onChange, lines 359-364: disabled until a code was sent *)
SetPhoneOtp(v) ==
    /\ phoneOtpSent
    /\ phoneOtp' = v
    /\ lastOp' = "SetPhoneOtp"
    /\ UNCHANGED <<step, applicantVars, emailOtpVars, phoneOtpSent,
                   phoneOtpVerified, primaryService, counselVars, files>>

(* Send OTP / Resend button of the phone channel, lines 365-375 *)
SendPhoneOtp ==
    /\ phoneOtpSent' = TRUE
    /\ phoneOtpVerified' = FALSE
    /\ phoneOtp' = <<>>
    /\ lastOp' = "SendPhoneOtp"
    /\ UNCHANGED <<step, applicantVars, emailOtpVars,
                   primaryService, counselVars, files>>

(* Verify button of the phone channel, lines 376-388: disabled until sent *)
VerifyPhoneOtp ==
    /\ phoneOtpSent
    /\ phoneOtpVerified' = (Len(trim(phoneOtp)) >= 4)
    /\ lastOp' = "VerifyPhoneOtp"
    /\ UNCHANGED <<step, applicantVars, emailOtpVars, phoneOtp, phoneOtpSent,
                   primaryService, counselVars, files>>

ContinueToServicesAlwaysEnabled ==
    /\ step' = 2
    /\ lastOp' = "ContinueToServices"
    /\ UNCHANGED <<applicantVars, emailOtpVars, phoneOtpVars,
                   primaryService, counselVars, files>>

(* Continue to Services button, lines 415-422: disabled unless canGoStep2 *)
ContinueToServices ==
    /\ canGoStep2
    /\ step' = 2
    /\ lastOp' = "ContinueToServices"
    /\ UNCHANGED <<applicantVars, emailOtpVars, phoneOtpVars,
                   primaryService, counselVars, files>>

----------------------------------------------------------------------------
(* Step 2 handlers *)

SelectServiceKeepsFirst(s) ==
    /\ primaryService' = IF primaryService = "" THEN s ELSE primaryService
    /\ lastOp' = "SelectService"
    /\ UNCHANGED <<step, applicantVars, emailOtpVars, phoneOtpVars,
                   counselVars, files>>

(* Primary service buttons, lines 431-446 *)
SelectService(s) ==
    /\ primaryService' = s
    /\ lastOp' = "SelectService"
    /\ UNCHANGED <<step, applicantVars, emailOtpVars, phoneOtpVars,
                   counselVars, files>>

BackResetsRequest ==
    /\ primaryService' = ""
    /\ legalDomain' = ""
    /\ lastOp' = "Back"
    /\ UNCHANGED <<step, applicantVars, emailOtpVars, phoneOtpVars,
                   caseDetails, consultMode, preferredDate, timeWindow,
                   urgency, pastLegalAction, files>>

(* Back buttons, lines 675-681 (counsel card) and 709-715 (other services) *)
Back ==
    /\ primaryService' = ""
    /\ lastOp' = "Back"
    /\ UNCHANGED <<step, applicantVars, emailOtpVars, phoneOtpVars,
                   counselVars, files>>

(* Legal domain buttons, lines 458-472 *)
SetLegalDomain(d) ==
    /\ legalDomain' = d
    /\ lastOp' = "SetLegalDomain"
    /\ UNCHANGED <<step, applicantVars, emailOtpVars, phoneOtpVars,
                   primaryService, caseDetails, consultMode, preferredDate,
                   timeWindow, urgency, pastLegalAction, files>>

(* Case details textarea onChange, lines 479-483 *)
SetCaseDetails(v) ==
    /\ caseDetails' = v
    /\ lastOp' = "SetCaseDetails"
    /\ UNCHANGED <<step, applicantVars, emailOtpVars, phoneOtpVars,
                   primaryService, legalDomain, consultMode, preferredDate,
                   timeWindow, urgency, pastLegalAction, files>>

(* Consultation mode PillRadio, lines 532-540 (button onClick, line 135) *)
SetConsultMode(m) ==
    /\ consultMode' = m
    /\ lastOp' = "SetConsultMode"
    /\ UNCHANGED <<step, applicantVars, emailOtpVars, phoneOtpVars,
                   primaryService, legalDomain, caseDetails, preferredDate,
                   timeWindow, urgency, pastLegalAction, files>>

(* Preferred date input onChange, lines 546-550; a cleared date input      *)
(* reports the value ""                                                    *)
SetPreferredDate(v) ==
    /\ preferredDate' = v
    /\ lastOp' = "SetPreferredDate"
    /\ UNCHANGED <<step, applicantVars, emailOtpVars, phoneOtpVars,
                   primaryService, legalDomain, caseDetails, consultMode,
                   timeWindow, urgency, pastLegalAction, files>>

(* Time window select onChange, lines 554-570: five options, none empty *)
SetTimeWindow(t) ==
    /\ timeWindow' = t
    /\ lastOp' = "SetTimeWindow"
    /\ UNCHANGED <<step, applicantVars, emailOtpVars, phoneOtpVars,
                   primaryService, legalDomain, caseDetails, consultMode,
                   preferredDate, urgency, pastLegalAction, files>>

(* Urgency buttons, lines 576-614 *)
SetUrgency(u) ==
    /\ urgency' = u
    /\ lastOp' = "SetUrgency"
    /\ UNCHANGED <<step, applicantVars, emailOtpVars, phoneOtpVars,
                   primaryService, legalDomain, caseDetails, consultMode,
                   preferredDate, timeWindow, pastLegalAction, files>>

(* Past legal action buttons, lines 621-635 *)
SetPastLegalAction(v) ==
    /\ pastLegalAction' = v
    /\ lastOp' = "SetPastLegalAction"
    /\ UNCHANGED <<step, applicantVars, emailOtpVars, phoneOtpVars,
                   primaryService, legalDomain, caseDetails, consultMode,
                   preferredDate, timeWindow, urgency, files>>

(* Pay & Book button, lines 683-689: an alert, no state is written *)
PayAndBook ==
    /\ lastOp' = "PayAndBook"
    /\ UNCHANGED <<step, applicantVars, emailOtpVars, phoneOtpVars,
                   primaryService, counselVars, files>>

(* Continue button of the other services, lines 716-722: an alert only *)
ContinueOther ==
    /\ lastOp' = "ContinueOther"
    /\ UNCHANGED <<step, applicantVars, emailOtpVars, phoneOtpVars,
                   primaryService, counselVars, files>>

----------------------------------------------------------------------------
(* Attachment list handlers *)

(* Longest attachment list explored *)
MaxFiles == 4

FileInputs == {"a.pdf", "b.pdf", "c.png"}

(* The file lists one pick or one drop can carry *)
FileBatches == UNION {[1..n -> FileInputs] : n \in 0..2}

AddFilesDedup(added) ==
    files' = files \o SelectSeq(added, LAMBDA f : \A k \in DOMAIN files : files[k] # f)

(* setFiles((prev) => [...prev, ...added]) guarded by `if (added.length)` *)
AddFiles(added) ==
    IF Len(added) # 0 THEN files' = files \o added ELSE files' = files

(* handleDrop, lines 260-264 *)
handleDrop(dropped) ==
    /\ Len(files) + Len(dropped) <= MaxFiles
    /\ AddFiles(dropped)
    /\ lastOp' = "handleDrop"
    /\ UNCHANGED <<step, applicantVars, emailOtpVars, phoneOtpVars,
                   primaryService, counselVars>>

(* File input onChange, lines 501-504 *)
ChooseFiles(chosen) ==
    /\ Len(files) + Len(chosen) <= MaxFiles
    /\ AddFiles(chosen)
    /\ lastOp' = "ChooseFiles"
    /\ UNCHANGED <<step, applicantVars, emailOtpVars, phoneOtpVars,
                   primaryService, counselVars>>

RECURSIVE FilterOutByName(_, _, _)
FilterOutByName(prev, idx, i) ==
    IF i >= Len(prev) THEN <<>>
    ELSE (IF prev[i + 1] # prev[idx + 1] THEN <<prev[i + 1]>> ELSE <<>>)
         \o FilterOutByName(prev, idx, i + 1)

(* prev.filter((_, i) => i !== idx), line 517; idx counts from 0 *)
RECURSIVE FilterOut(_, _, _)
FilterOut(prev, idx, i) ==
    IF i >= Len(prev) THEN <<>>
    ELSE (IF i # idx THEN <<prev[i + 1]>> ELSE <<>>) \o FilterOut(prev, idx, i + 1)

(* Remove button of the list item idx, lines 512-523: one per file shown *)
RemoveFile(idx) ==
    /\ idx \in 0..(Len(files) - 1)
    /\ files' = FilterOut(files, idx, 0)
    /\ lastOp' = "RemoveFile"
    /\ UNCHANGED <<step, applicantVars, emailOtpVars, phoneOtpVars,
                   primaryService, counselVars>>

----------------------------------------------------------------------------
(* Specifications *)

Step1FieldEdits ==
    \/ \E v \in NameInputs : SetName(v)
    \/ \E v \in GENDERS : SetGender(v)
    \/ \E v \in EmailInputs : SetEmail(v)
    \/ \E v \in PhoneInputs : SetPhone(v)
    \/ \E v \in NationalityInputs : SetNationality(v)
    \/ \E v \in AddressInputs : SetAddress(v)

OtpButtons ==
    \/ SendEmailOtp
    \/ VerifyEmailOtp
    \/ SendPhoneOtp
    \/ VerifyPhoneOtp

ServiceButtons ==
    \/ \E s \in PRIMARY_SERVICES : SelectService(s)
    \/ Back
    \/ PayAndBook
    \/ ContinueOther

FileEdits ==
    \/ \E dropped \in FileBatches : handleDrop(dropped)
    \/ \E chosen \in FileBatches : ChooseFiles(chosen)
    \/ \E idx \in 0..(MaxFiles - 1) : RemoveFile(idx)

(* Every handler of the page with every input value *)
Next ==
    \/ Step1FieldEdits
    \/ \E v \in DobInputs : SetDob(v)
    \/ \E v \in OtpInputs : SetEmailOtp(v)
    \/ \E v \in OtpInputs : SetPhoneOtp(v)
    \/ OtpButtons
    \/ ContinueToServices
    \/ ServiceButtons
    \/ \E d \in LEGAL_DOMAINS : SetLegalDomain(d)
    \/ \E v \in CaseDetailsInputs : SetCaseDetails(v)
    \/ \E m \in CONSULT_MODES : SetConsultMode(m)
    \/ \E v \in PreferredDateInputs : SetPreferredDate(v)
    \/ \E t \in TIME_WINDOWS : SetTimeWindow(t)
    \/ \E u \in UrgencyTiers : SetUrgency(u)
    \/ \E v \in PAST_ACTIONS : SetPastLegalAction(v)
    \/ FileEdits

Spec == Init /\ [][Next]_vars

(* The handlers write disjoint groups of state cells, so each group is     *)
(* explored by a specification of its own.                                 *)

(* Step 1: the applicant fields, both OTP channels with a code that        *)
(* verifies, and the Continue button.                                      *)
NextStep1 ==
    \/ Step1FieldEdits
    \/ \E v \in {Rep("1", 4)} : SetEmailOtp(v)
    \/ \E v \in {Rep("1", 4)} : SetPhoneOtp(v)
    \/ OtpButtons
    \/ ContinueToServices

SpecStep1 == Init /\ [][NextStep1]_vars

(* The two OTP channels with every entered code, and the addresses they    *)
(* belong to.                                                              *)
NextOtp ==
    \/ \E v \in EmailInputs : SetEmail(v)
    \/ \E v \in PhoneInputs : SetPhone(v)
    \/ \E v \in OtpInputs : SetEmailOtp(v)
    \/ \E v \in OtpInputs : SetPhoneOtp(v)
    \/ OtpButtons

SpecOtp == Init /\ [][NextOtp]_vars

(* Step 2: the service choice and the counsel request, with two of the     *)
(* eight legal domains and two of the five time windows.                   *)
NextStep2 ==
    \/ ServiceButtons
    \/ \E d \in {"Criminal Matters", "Other"} : SetLegalDomain(d)
    \/ \E v \in CaseDetailsInputs : SetCaseDetails(v)
    \/ \E m \in CONSULT_MODES : SetConsultMode(m)
    \/ \E v \in PreferredDateInputs : SetPreferredDate(v)
    \/ \E t \in {"10:00 AM - 12:00 PM", "12:00 PM - 02:00 PM"} : SetTimeWindow(t)
    \/ \E u \in UrgencyTiers : SetUrgency(u)
    \/ \E v \in PAST_ACTIONS : SetPastLegalAction(v)

SpecStep2 == Init /\ [][NextStep2]_vars

(* The attachment list *)
SpecFiles == Init /\ [][FileEdits]_vars

(* The whole flow on its shortest path: every step 1 field with the value  *)
(* that passes, Continue, the counsel service and one other service, Back, *)
(* the four counsel fields that start unset, and single-file drops.        *)
NextFlow ==
    \/ \E v \in {<<"J", "o">>} : SetName(v)
    \/ \E v \in {"female"} : SetGender(v)
    \/ \E v \in {<<"a", "@", "b">>} : SetEmail(v)
    \/ \E v \in {Rep("9", 8)} : SetPhone(v)
    \/ \E v \in {<<"I", "N">>} : SetNationality(v)
    \/ \E v \in {Rep("x", 6)} : SetAddress(v)
    \/ ContinueToServices
    \/ \E s \in {"get_counsel", "legal_drafting"} : SelectService(s)
    \/ Back
    \/ \E d \in {"Other"} : SetLegalDomain(d)
    \/ \E v \in {Rep("x", 10)} : SetCaseDetails(v)
    \/ \E m \in {"video"} : SetConsultMode(m)
    \/ \E v \in {"no"} : SetPastLegalAction(v)
    \/ \E dropped \in {<<"a.pdf">>} : handleDrop(dropped)
    \/ \E idx \in {0} : RemoveFile(idx)

SpecFlow == Init /\ [][NextFlow]_vars

----------------------------------------------------------------------------
(* What is shown: a section is shown when every Collapse around it is open *)

(* Collapse open={step === 2}, line 427 *)
Step2Shown == step = 2

(* Collapse open={isCounsel}, line 451, inside the step 2 Collapse *)
CounselFlowShown == Step2Shown /\ isCounsel

(* Collapse open={readyToBook}, line 642, inside the counsel Collapse *)
ReadyToBookShown == CounselFlowShown /\ readyToBook

(* Collapse open={primaryService !== "" && !isCounsel}, line 697, inside   *)
(* the step 2 Collapse                                                     *)
NextStepShown == Step2Shown /\ (primaryService # "" /\ ~isCounsel)

----------------------------------------------------------------------------
(* Vocabulary of the statements below.  The length of a text "after        *)
(* trimming" is stated directly, as the distance between its first and its *)
(* last non-blank character, and not through trim.                         *)

NonBlank(s) == {i \in DOMAIN s : s[i] # " "}

TrimmedLen(s) ==
    IF NonBlank(s) = {} THEN 0
    ELSE (CHOOSE i \in NonBlank(s) : \A j \in NonBlank(s) : j <= i)
         - (CHOOSE i \in NonBlank(s) : \A j \in NonBlank(s) : i <= j) + 1

ChannelsNonBlocking ==
    /\ (emailOtpVerified \/ ~emailOtpSent)
    /\ (phoneOtpVerified \/ ~phoneOtpSent)

(* The six basic constraints, lengths counted on the raw value *)
BasicRaw ==
    /\ Len(name) > 1
    /\ gender # ""
    /\ \E i \in DOMAIN email : email[i] = "@"
    /\ Len(phone) >= 8
    /\ Len(nationality) > 1
    /\ Len(address) > 5

(* The six basic constraints, lengths counted after trimming *)
BasicTrimmed ==
    /\ TrimmedLen(name) > 1
    /\ gender # ""
    /\ \E i \in DOMAIN email : email[i] = "@"
    /\ TrimmedLen(phone) >= 8
    /\ TrimmedLen(nationality) > 1
    /\ TrimmedLen(address) > 5

----------------------------------------------------------------------------
(* C1 as stated: canAdvanceToStep2() is true iff name length > 1, gender   *)
(* set, email contains "@", phone length >= 8, nationality length > 1,     *)
(* address length > 5, and each channel is verified or was never sent.     *)
(* Refuted: a value padded with blanks is long enough and is rejected.     *)
C1_AsStated == canGoStep2 <=> (BasicRaw /\ ChannelsNonBlocking)

(* C1 amended: canAdvanceToStep2() is true iff the six basic constraints   *)
(* hold with the lengths of name, phone, nationality and address counted   *)
(* after trimming leading and trailing blanks, and each channel is         *)
(* verified or was never sent.                                             *)
C1_CanGoStep2 == canGoStep2 <=> (BasicTrimmed /\ ChannelsNonBlocking)

(* C1 witness: the gate is open with both channels sent and verified *)
C1_Witness ==
    /\ canGoStep2
    /\ emailOtpSent /\ emailOtpVerified
    /\ phoneOtpSent /\ phoneOtpVerified

(* C2: the step changes only from 1 to 2 and only by the Continue button,  *)
(* and every Continue click happens in a state where canAdvanceToStep2()   *)
(* is true and the six basic constraints hold; no field edit, OTP send or  *)
(* OTP verify changes the step.                                            *)
C2_StepOnlyByContinue ==
    [][ /\ (step' # step =>
               step = 1 /\ step' = 2 /\ lastOp' = "ContinueToServices")
        /\ (lastOp' = "ContinueToServices" =>
               canGoStep2 /\ BasicRaw /\ BasicTrimmed /\ step' = 2) ]_vars

(* C2 witness: Continue has just opened step 2 *)
C2_Witness == step = 2 /\ lastOp = "ContinueToServices"

----------------------------------------------------------------------------
(* C3: readyToBook() is false when no primary service is selected, equals  *)
(* counselReady() when the service is get_counsel, and is true for every   *)
(* other selected service whatever the other fields hold.                  *)
C3_ReadyToBook ==
    /\ (primaryService = "" => ~readyToBook)
    /\ (primaryService = "get_counsel" => (readyToBook <=> counselReady))
    /\ (primaryService \in PRIMARY_SERVICES \ {"get_counsel"} => readyToBook)

(* C3 witness: a non-counsel service was just selected while the counsel   *)
(* request is still empty, and the booking is ready                        *)
C3_Witness ==
    /\ lastOp = "SelectService"
    /\ primaryService = "document_review"
    /\ legalDomain = "" /\ caseDetails = <<>> /\ pastLegalAction = ""
    /\ readyToBook

(* The parts of a counsel request other than the case details *)
CounselChoicesSet ==
    /\ legalDomain # ""
    /\ consultMode # ""
    /\ preferredDate # ""
    /\ timeWindow # ""
    /\ urgency # ""
    /\ pastLegalAction # ""

(* C4 as stated: counselReady() is true iff the service is get_counsel,    *)
(* legalDomain, consultMode, urgency and pastLegalAction are set,          *)
(* preferredDate and timeWindow are non-empty and caseDetails has length   *)
(* >= 10.  Refuted: case details of 10 characters that end in a blank.     *)
C4_AsStated ==
    counselReady <=>
        (primaryService = "get_counsel" /\ CounselChoicesSet /\ Len(caseDetails) >= 10)

(* C4 amended: as stated, with the length of caseDetails counted after     *)
(* trimming leading and trailing blanks.                                   *)
C4_CounselReady ==
    counselReady <=>
        (primaryService = "get_counsel" /\ CounselChoicesSet
            /\ TrimmedLen(caseDetails) >= 10)

(* C4 witness: a complete counsel request *)
C4_Witness ==
    /\ counselReady
    /\ primaryService = "get_counsel"
    /\ consultMode = "video"
    /\ urgency = "within_6"

(* The four fields of C5, caseDetails counted on the raw value *)
FourMissingRaw ==
    \/ legalDomain = ""
    \/ consultMode = ""
    \/ pastLegalAction = ""
    \/ Len(caseDetails) < 10

(* The four fields of C5, caseDetails counted after trimming *)
FourMissingTrimmed ==
    \/ legalDomain = ""
    \/ consultMode = ""
    \/ pastLegalAction = ""
    \/ TrimmedLen(caseDetails) < 10

FourSetters ==
    {"SetLegalDomain", "SetCaseDetails", "SetConsultMode", "SetPastLegalAction"}

(* C5 as stated: with get_counsel selected, counselReady() is false while  *)
(* one of legalDomain, consultMode, pastLegalAction is unset or            *)
(* caseDetails is shorter than 10 characters, and the action that supplies *)
(* the last missing one of the four makes counselReady() true.  Refuted:   *)
(* the preferred date was cleared, or the case details are padded.         *)
C5_AsStated ==
    /\ [](isCounsel /\ FourMissingRaw => ~counselReady)
    /\ [][ (isCounsel /\ FourMissingRaw /\ lastOp' \in FourSetters
               /\ ~FourMissingRaw') => counselReady' ]_vars

(* C5 amended: with get_counsel selected, counselReady() is false while    *)
(* one of legalDomain, consultMode, pastLegalAction is unset or            *)
(* caseDetails, after trimming, is shorter than 10 characters; and from a  *)
(* state whose preferredDate is non-empty the action that supplies the     *)
(* last missing one of the four makes counselReady() true.                 *)
C5_LastFieldCompletes ==
    /\ [](isCounsel /\ FourMissingTrimmed => ~counselReady)
    /\ [][ (isCounsel /\ FourMissingTrimmed /\ lastOp' \in FourSetters
               /\ ~FourMissingTrimmed' /\ preferredDate # "")
           => (counselReady' /\ ~counselReady) ]_vars

(* C5 witness: the consultation mode was supplied last and completed the   *)
(* request                                                                 *)
C5_Witness ==
    /\ lastOp = "SetConsultMode"
    /\ isCounsel
    /\ counselReady

(* C6: the total is 1500 for standard_24_48, 2000 for within_6 and 2500    *)
(* for within_2, that is base 1500 plus the surcharge 0 / 500 / 1000 of    *)
(* the tier; it is decided by the urgency alone.                           *)
C6_TotalByUrgency ==
    /\ urgency \in {"standard_24_48", "within_6", "within_2"}
    /\ (urgency = "standard_24_48" => total = 1500 + 0 /\ total = 1500)
    /\ (urgency = "within_6" => total = 1500 + 500 /\ total = 2000)
    /\ (urgency = "within_2" => total = 1500 + 1000 /\ total = 2500)

(* C6 witness: the highest tier was just chosen for a service that is not  *)
(* the counsel flow                                                        *)
C6_Witness ==
    /\ lastOp = "SetUrgency"
    /\ urgency = "within_2"
    /\ primaryService = "legal_drafting"
    /\ total = 2500

----------------------------------------------------------------------------
(* C7: for the email and the phone channel, verified implies sent.         *)
C7_VerifiedImpliesSent ==
    /\ (emailOtpVerified => emailOtpSent)
    /\ (phoneOtpVerified => phoneOtpSent)

(* C7 witness: both channels were sent and then verified *)
C7_Witness ==
    /\ emailOtpSent /\ emailOtpVerified
    /\ phoneOtpSent /\ phoneOtpVerified
    /\ lastOp \in {"VerifyEmailOtp", "VerifyPhoneOtp"}

(* C8: Send or Resend on a channel leaves it sent, unverified and with an  *)
(* empty entered code, also when the channel was verified before.          *)
C8_SendResets ==
    /\ (lastOp = "SendEmailOtp" =>
           emailOtpSent /\ ~emailOtpVerified /\ emailOtp = <<>>)
    /\ (lastOp = "SendPhoneOtp" =>
           phoneOtpSent /\ ~phoneOtpVerified /\ phoneOtp = <<>>)

(* C8 witness: the email code was just sent again while the phone channel  *)
(* stays verified                                                          *)
C8_Witness ==
    /\ lastOp = "SendEmailOtp"
    /\ emailOtpSent /\ ~emailOtpVerified /\ emailOtp = <<>>
    /\ phoneOtpVerified

(* C9 as stated: Verify sets verified to (entered code length >= 4).       *)
(* Refuted: a code of three digits and a blank has length 4 and does not   *)
(* verify.                                                                 *)
C9_AsStated ==
    /\ (lastOp = "VerifyEmailOtp" => (emailOtpVerified <=> Len(emailOtp) >= 4))
    /\ (lastOp = "VerifyPhoneOtp" => (phoneOtpVerified <=> Len(phoneOtp) >= 4))

(* C9 amended: Verify on a channel whose code was sent sets verified to    *)
(* (length of the entered code after trimming leading and trailing blanks  *)
(* >= 4).                                                                  *)
C9_VerifyByTrimmedLength ==
    /\ (lastOp = "VerifyEmailOtp" =>
           emailOtpSent /\ (emailOtpVerified <=> TrimmedLen(emailOtp) >= 4))
    /\ (lastOp = "VerifyPhoneOtp" =>
           phoneOtpSent /\ (phoneOtpVerified <=> TrimmedLen(phoneOtp) >= 4))

(* C9 witness: Verify has just accepted a code of four characters *)
C9_Witness ==
    /\ lastOp = "VerifyEmailOtp"
    /\ Len(emailOtp) = 4
    /\ emailOtpVerified

(* C10: the primary service is unset or one of the 7 service kinds;        *)
(* selecting a service makes it the selected one whatever was selected     *)
(* before, and Back returns the selection to unset.                        *)
C10_SingleSelect ==
    /\ [](/\ Cardinality(PRIMARY_SERVICES) = 7
          /\ primaryService \in PRIMARY_SERVICES \cup {""}
          /\ (lastOp = "SelectService" => primaryService \in PRIMARY_SERVICES)
          /\ (lastOp = "Back" => primaryService = ""))
    /\ [][ \A s \in PRIMARY_SERVICES : SelectService(s) => primaryService' = s ]_vars

(* C10 witness: Back has just cleared the selection of a filled request *)
C10_Witness ==
    /\ lastOp = "Back"
    /\ primaryService = ""
    /\ legalDomain # ""

----------------------------------------------------------------------------
(* C11 as stated: whenever readyToBook() is true at a render, for any      *)
(* selected service, the Ready to Book section is shown.  Stated here for  *)
(* the render that follows the selection of a service with step 2 open,    *)
(* where it is already refuted: for a service other than get_counsel the   *)
(* section sits inside the closed counsel Collapse.                        *)
C11_AsStated ==
    (step = 2 /\ lastOp = "SelectService" /\ readyToBook) => ReadyToBookShown

(* C17 as stated: step = 1 implies that primaryService is unset.  Refuted: *)
(* the service buttons stay mounted and enabled inside the closed step 2   *)
(* Collapse.                                                               *)
C17_AsStated == step = 1 => primaryService = ""

----------------------------------------------------------------------------
(* C12: removing the attachment at a valid index idx yields the list with  *)
(* exactly that element deleted: one element fewer, the elements before    *)
(* idx keep their positions and every element after idx moves down by one. *)
C12_RemoveShifts ==
    [][ \A idx \in 0..MaxFiles :
          RemoveFile(idx) =>
            /\ idx < Len(files)
            /\ Len(files') = Len(files) - 1
            /\ \A k \in 1..idx : files'[k] = files[k]
            /\ \A k \in (idx + 1)..Len(files') : files'[k] = files[k + 1] ]_vars

(* C12 witness: a removal has left a list that still holds a file twice    *)
(* and another file behind it                                              *)
C12_Witness ==
    /\ lastOp = "RemoveFile"
    /\ Len(files) = 3
    /\ files[1] = files[2]
    /\ files[2] # files[3]

(* The list `after` is the list `before` with `added` appended *)
Appended(before, added, after) ==
    /\ Len(after) = Len(before) + Len(added)
    /\ \A k \in 1..Len(before) : after[k] = before[k]
    /\ \A k \in 1..Len(added) : after[Len(before) + k] = added[k]

(* C13: adding files by the file picker or by drag-and-drop appends them   *)
(* in their order to the end of the list, keeps every existing attachment  *)
(* at its position and removes no duplicate; an empty selection leaves the *)
(* list unchanged.                                                         *)
C13_AddAppends ==
    [][ \A added \in FileBatches :
          /\ (handleDrop(added) => Appended(files, added, files'))
          /\ (ChooseFiles(added) => Appended(files, added, files'))
          /\ ((handleDrop(added) \/ ChooseFiles(added)) /\ added = <<>>
                 => files' = files) ]_vars

(* C13 witness: a drop has appended a file that the list already held *)
C13_Witness ==
    /\ lastOp = "handleDrop"
    /\ Len(files) = 3
    /\ files[3] = files[1]
    /\ files[2] # files[1]

----------------------------------------------------------------------------
(* C14: once the step is 2 it stays 2, and step 2 stays shown, under every *)
(* later operation, also when an edit of a step 1 field or an OTP send     *)
(* makes canAdvanceToStep2() false.                                        *)
C14_Step2Stays == [][ step = 2 => (step' = 2 /\ Step2Shown') ]_vars

(* C14 witness: after advancing, an OTP was sent and not verified and the  *)
(* name is no longer valid: the gate is closed and step 2 is still open    *)
C14_Witness ==
    /\ step = 2
    /\ Step2Shown
    /\ lastOp = "SendEmailOtp"
    /\ TrimmedLen(name) <= 1
    /\ ~canGoStep2

(* The conditions of counselReady() on the counsel request alone *)
CounselRequestComplete == CounselChoicesSet /\ TrimmedLen(caseDetails) >= 10

(* C15: Back sets primaryService to unset and changes nothing else: step,  *)
(* the applicant fields, both verification states, the counsel request and *)
(* the attachment list stay as they are; so counselReady() before a Back   *)
(* from the counsel flow is what the request still says after it, and      *)
(* selecting get_counsel again makes counselReady() that same value.       *)
C15_BackFrame ==
    [][ /\ (lastOp' = "Back" =>
               /\ primaryService' = ""
               /\ UNCHANGED <<step, name, gender, email, phone, nationality,
                              dob, address, emailOtp, emailOtpSent,
                              emailOtpVerified, phoneOtp, phoneOtpSent,
                              phoneOtpVerified, legalDomain, caseDetails,
                              consultMode, preferredDate, timeWindow, urgency,
                              pastLegalAction, files>>)
        /\ (lastOp' = "Back" /\ isCounsel =>
               (counselReady <=> CounselRequestComplete'))
        /\ (lastOp = "Back" /\ lastOp' = "SelectService" /\ isCounsel' =>
               (counselReady' <=> CounselRequestComplete)) ]_vars

(* C15 witness: Back was clicked at step 2 on a complete counsel request   *)
(* with an attachment                                                      *)
C15_Witness ==
    /\ lastOp = "Back"
    /\ primaryService = ""
    /\ step = 2
    /\ CounselRequestComplete
    /\ files # <<>>

(* C16: an edit of the email value, the phone value or an entered OTP code *)
(* changes only that field; sent and verified of both channels stay as     *)
(* they are, so a verified channel stays verified when its address changes *)
(* or its entered code becomes shorter than 4 characters.                  *)
C16_EditFrame ==
    [][ /\ (lastOp' = "SetEmail" =>
               UNCHANGED <<step, name, gender, phone, nationality, dob, address,
                           emailOtp, phoneOtp>>)
        /\ (lastOp' = "SetPhone" =>
               UNCHANGED <<step, name, gender, email, nationality, dob, address,
                           emailOtp, phoneOtp>>)
        /\ (lastOp' = "SetEmailOtp" =>
               UNCHANGED <<step, applicantVars, phoneOtp>>)
        /\ (lastOp' = "SetPhoneOtp" =>
               UNCHANGED <<step, applicantVars, emailOtp>>)
        /\ (lastOp' \in {"SetEmail", "SetPhone", "SetEmailOtp", "SetPhoneOtp"} =>
               UNCHANGED <<emailOtpSent, emailOtpVerified, phoneOtpSent,
                           phoneOtpVerified, primaryService, counselVars,
                           files>>) ]_vars

(* C16 witness: the email channel is still verified after its entered code *)
(* was edited to fewer than 4 characters and the address no longer holds   *)
(* an "@"                                                                  *)
C16_Witness ==
    /\ lastOp = "SetEmailOtp"
    /\ emailOtpVerified
    /\ TrimmedLen(emailOtp) < 4
    /\ \A i \in DOMAIN email : email[i] # "@"
    /\ email # <<>>

====
